---- MODULE Spec2Model ----
(***************************************************************************)
(* Task-Flow: the kanban drag-and-drop controller (KanbanBoard) with its   *)
(* caller (UserDashboard), the employee performance scoring function       *)
(* (calculateEmployeePerformance), the task cards, the status-change       *)
(* handler, the auth provider, the deadline requests and the paginated     *)
(* task lists.                                                             *)
(***************************************************************************)
EXTENDS Integers, Sequences, FiniteSets, TLC

(***************************************************************************)
(* Bounds of the model.                                                    *)
(***************************************************************************)
\* number of task ids the board can hold
NumTasks == 2
\* length of the task list handed to calculateEmployeePerformance
MaxPerfTasks == 2
\* the largest number of tasks of the employee of the scoring scenarios
MaxScenarioTasks == 4
\* status updates of the caller that may be awaiting the server's answer
MaxInFlight == 1
\* handleApprove / handleReject runs that may be awaiting the server's answer
MaxHandlers == 2
\* rows of the tasks table that the task pages list
NumServerTasks == 25
\* fetchTasks calls of a task page that may be awaiting the server's answer
MaxListFetches == 2

(***************************************************************************)
(* Data model (types/database.ts).                                         *)
(***************************************************************************)
TaskStatus == {"todo", "in_progress", "in_review", "done", "completed"}

TaskIds == 1..NumTasks

\* activeId = null
NoId == 0

\* the result null of findContainer
NoContainer == "null"

VARIABLES
    isAdmin,        \* KanbanBoard prop: the actor's role
    tasks,          \* KanbanBoard prop: the externally supplied task list
    localTasks,     \* KanbanBoard state: the optimistic local copy
    activeId,       \* KanbanBoard state: id of the dragged task, NoId when none
    lastOver,       \* column the last drag_over of the gesture resolved to
    moved,          \* a drag_over of the gesture changed the local copy
    dropped,        \* the end_drag event, if the last event was one
    calls,          \* calls of onStatusChange made by the last event's handler
    inflight,       \* UserDashboard.handleStatusChange runs awaiting the server
    perfTasks,      \* calculateEmployeePerformance: the tasks argument
    now,            \* the clock read by new Date(), in hours
    report,         \* the report calculateEmployeePerformance returned last
    pending,        \* ids of the listed tasks whose pending_approval is set
    rows,           \* the tasks table: status, timestamps and flag of each row
    user,           \* AuthProvider state: the signed-in user, NoUser when none
    role,           \* AuthProvider state: the role, NoRole while null
    isApproved,     \* AuthProvider state: "true", "false" or "null"
    loading,        \* AuthProvider state: no auth event was handled yet
    sessionChecked, \* the getSession() promise of the mount effect resolved
    fetches,        \* fetchUserData calls that have not returned yet
    roleFor,        \* the user whose fetchUserData call wrote role last
    approvedFor,    \* the user whose fetchUserData call wrote isApproved last
    requests,       \* the deadline_requests table: status and reviewer
    deadline,       \* the tasks table: the deadline of each request's task
    requestLists,   \* AdminRequests state of each administrator: requests
    handlers,       \* handleApprove / handleReject runs that have not returned
    listTasks,      \* task page state: tasks, the ids in the list's order
    page,           \* task page state: page
    hasMore,        \* task page state: hasMore
    listLoading,    \* task page state: loading
    loadingMore,    \* task page state: loadingMore
    listFetches     \* fetchTasks calls that have not returned yet

kanbanVars == <<isAdmin, tasks, localTasks, activeId, lastOver, moved, dropped,
                calls, inflight>>

scoreVars == <<perfTasks, now, report>>

cardVars == <<pending>>

rowVars == <<rows>>

\* the state of the other pages and of the server
authVars == <<user, role, isApproved, loading, sessionChecked, fetches, roleFor,
              approvedFor>>

requestVars == <<requests, deadline, requestLists, handlers>>

listVars == <<listTasks, page, hasMore, listLoading, loadingMore, listFetches>>

pagesVars == <<authVars, requestVars, listVars>>

restVars == <<rowVars, pagesVars>>

\* what the board's handlers, and what the scoring call, leave alone
offBoardVars == <<scoreVars, cardVars, restVars>>

offScoreVars == <<kanbanVars, cardVars, restVars>>

vars == <<kanbanVars, scoreVars, cardVars, restVars>>

(***************************************************************************)
(* KanbanBoard.                                                            *)
(***************************************************************************)
\* the four displayed columns, in display order
columns == <<"todo", "in_progress", "in_review", "completed">>

columnIds == {columns[i] : i \in 1..Len(columns)}

\* A drop target (event.over): absent, a column, a task card, or some other
\* droppable id.  col = "" means "not a column id", task = NoId "not a task id".
NoOver == [present |-> FALSE, col |-> "", task |-> NoId]

ColumnTarget(c) == [present |-> TRUE, col |-> c, task |-> NoId]

TaskTarget(i) == [present |-> TRUE, col |-> "", task |-> i]

OtherTarget == [present |-> TRUE, col |-> "", task |-> NoId]

OverTargets ==
    {NoOver, OtherTarget} \cup {ColumnTarget(c) : c \in columnIds}
                          \cup {TaskTarget(i) : i \in TaskIds}

\* Array.prototype.findIndex on a task list: 0 stands for -1 (not found)
FindIndex(list, id) ==
    IF \E k \in 1..Len(list) : list[k].id = id
    THEN CHOOSE k \in 1..Len(list) :
            /\ list[k].id = id
            /\ \A j \in 1..(k - 1) : list[j].id # id
    ELSE 0

\* findContainer applied to a task id
findContainerOfTask(list, id) ==
    LET k == FindIndex(list, id) IN
    IF k = 0 THEN NoContainer
    ELSE IF list[k].status = "done" THEN "completed"
    ELSE list[k].status

\* findContainer applied to the id of a drop target
findContainer(list, over) ==
    IF over.col \in columnIds THEN over.col
    ELSE findContainerOfTask(list, over.task)

\* tasksByStatus: the grouping of a task list by status.  The accumulator has
\* the keys todo, in_progress, in_review, completed and done.
GroupKeys == {"todo", "in_progress", "in_review", "completed", "done"}

\* the property names every object inherits from Object.prototype: looked up
\* in the accumulator they yield a truthy value that is not an array
InheritedKeys ==
    {"constructor", "hasOwnProperty", "isPrototypeOf", "propertyIsEnumerable",
     "toLocaleString", "toString", "valueOf", "__proto__", "__defineGetter__",
     "__defineSetter__", "__lookupGetter__", "__lookupSetter__"}

\* the forEach of tasksByStatus from task k on: the accumulator, and whether
\* the call of push threw a TypeError (which ends the rendering)
RECURSIVE groupInto(_, _, _)
groupInto(grouped, list, k) ==
    IF k > Len(list) THEN [threw |-> FALSE, grouped |-> grouped]
    ELSE LET task == list[k] IN
         IF task.status \in GroupKeys
         THEN groupInto([grouped EXCEPT ![task.status] = Append(@, task)],
                        list, k + 1)
         ELSE IF task.status \in InheritedKeys
         THEN [threw |-> TRUE, grouped |-> grouped]
         ELSE IF task.status = "done"
         THEN groupInto([grouped EXCEPT !["completed"] = Append(@, task)],
                        list, k + 1)
         ELSE groupInto(grouped, list, k + 1)

tasksByStatus(list) == groupInto([key \in GroupKeys |-> <<>>], list, 1)

\* the task list handed to the KanbanColumn of column id c
ColumnTasks(list, c) == tasksByStatus(list).grouped[c]

\* handleDragOver without the restriction that completed tasks stay put
handleDragOver_noTerminalCheck(list, admin, id, over) ==
    IF ~over.present THEN list
    ELSE LET activeContainer == findContainerOfTask(list, id)
             overContainer == findContainer(list, over)
             activeIndex == FindIndex(list, id)
         IN  IF \/ activeContainer = NoContainer
                \/ overContainer = NoContainer
                \/ activeContainer = overContainer
             THEN list
             ELSE IF ~admin /\ overContainer = "completed" THEN list
             ELSE IF activeIndex = 0 THEN list
             ELSE [list EXCEPT ![activeIndex].status = overContainer]

\* handleDragOver moving the dragged card behind the others, as a reordering
\* board would
handleDragOver_movingToEnd(list, admin, id, over) ==
    IF ~over.present THEN list
    ELSE LET activeContainer == findContainerOfTask(list, id)
             overContainer == findContainer(list, over)
             activeIndex == FindIndex(list, id)
         IN  IF \/ activeContainer = NoContainer
                \/ overContainer = NoContainer
                \/ activeContainer = overContainer
             THEN list
             ELSE IF activeContainer = "completed" THEN list
             ELSE IF ~admin /\ overContainer = "completed" THEN list
             ELSE IF activeIndex = 0 THEN list
             ELSE SelectSeq(list, LAMBDA task : task.id # id)
                  \o <<[list[activeIndex] EXCEPT !.status = overContainer]>>

\* handleDragOver: the local copy after a drag_over event
handleDragOver(list, admin, id, over) ==
    IF ~over.present THEN list
    ELSE LET activeContainer == findContainerOfTask(list, id)
             overContainer == findContainer(list, over)
             activeIndex == FindIndex(list, id)
         IN  IF \/ activeContainer = NoContainer
                \/ overContainer = NoContainer
                \/ activeContainer = overContainer
             THEN list
             ELSE IF activeContainer = "completed" THEN list
             ELSE IF ~admin /\ overContainer = "completed" THEN list
             ELSE IF activeIndex = 0 THEN list
             ELSE [list EXCEPT ![activeIndex].status = overContainer]

\* the commit branch of handleDragEnd (lines 192-198)
persistIfChanged(list, ext, id) ==
    LET finalIndex == FindIndex(list, id)
        originalIndex == FindIndex(ext, id)
    IN  IF /\ finalIndex # 0
           /\ originalIndex # 0
           /\ list[finalIndex].status # ext[originalIndex].status
        THEN [local |-> list,
              calls |-> <<[taskId |-> id, status |-> list[finalIndex].status]>>]
        ELSE [local |-> list, calls |-> <<>>]

\* handleDragEnd without the final check of the actor's role on drop
handleDragEnd_noRoleCheck(list, ext, admin, id, over) ==
    IF ~over.present THEN [local |-> ext, calls |-> <<>>]
    ELSE LET activeContainer == findContainerOfTask(list, id)
             overContainer == findContainer(list, over)
         IN  IF activeContainer # NoContainer /\ overContainer # NoContainer
             THEN IF activeContainer = "completed" /\ overContainer # "completed"
                  THEN [local |-> ext, calls |-> <<>>]
                  ELSE persistIfChanged(list, ext, id)
             ELSE [local |-> list, calls |-> <<>>]

\* handleDragEnd persisting the final status without comparing it with the
\* original one
handleDragEnd_alwaysPersist(list, ext, admin, id, over) ==
    IF ~over.present THEN [local |-> ext, calls |-> <<>>]
    ELSE LET activeContainer == findContainerOfTask(list, id)
             overContainer == findContainer(list, over)
             finalIndex == FindIndex(list, id)
         IN  IF activeContainer # NoContainer /\ overContainer # NoContainer
             THEN IF activeContainer = "completed" /\ overContainer # "completed"
                  THEN [local |-> ext, calls |-> <<>>]
                  ELSE IF ~admin /\ overContainer = "completed"
                  THEN [local |-> ext, calls |-> <<>>]
                  ELSE [local |-> list,
                        calls |-> <<[taskId |-> id,
                                     status |-> list[finalIndex].status]>>]
             ELSE [local |-> list, calls |-> <<>>]

\* handleDragEnd returning without setLocalTasks(tasks) when nothing is under
\* the pointer or a restriction refuses the drop
handleDragEnd_noRevert(list, ext, admin, id, over) ==
    IF ~over.present THEN [local |-> list, calls |-> <<>>]
    ELSE LET activeContainer == findContainerOfTask(list, id)
             overContainer == findContainer(list, over)
         IN  IF activeContainer # NoContainer /\ overContainer # NoContainer
             THEN IF activeContainer = "completed" /\ overContainer # "completed"
                  THEN [local |-> list, calls |-> <<>>]
                  ELSE IF ~admin /\ overContainer = "completed"
                  THEN [local |-> list, calls |-> <<>>]
                  ELSE persistIfChanged(list, ext, id)
             ELSE [local |-> list, calls |-> <<>>]

\* handleDragEnd: the local copy after an end_drag event and the calls of
\* onStatusChange it makes
handleDragEnd(list, ext, admin, id, over) ==
    IF ~over.present THEN [local |-> ext, calls |-> <<>>]
    ELSE LET activeContainer == findContainerOfTask(list, id)
             overContainer == findContainer(list, over)
         IN  IF activeContainer # NoContainer /\ overContainer # NoContainer
             THEN IF activeContainer = "completed" /\ overContainer # "completed"
                  THEN [local |-> ext, calls |-> <<>>]
                  ELSE IF ~admin /\ overContainer = "completed"
                  THEN [local |-> ext, calls |-> <<>>]
                  ELSE persistIfChanged(list, ext, id)
             ELSE [local |-> list, calls |-> <<>>]

\* a board without the effect: the local copy survives a new tasks prop
useEffectTasks_none(list, newTasks) == list

\* useEffect(() => setLocalTasks(tasks), [tasks]): the local copy after the
\* tasks prop was replaced by newTasks
useEffectTasks(list, newTasks) == newTasks

(***************************************************************************)
(* calculateEmployeePerformance (lib/performance.ts).  Timestamps are whole *)
(* numbers of ticks, TicksPerHour ticks to the hour.  The JavaScript        *)
(* numbers are modelled exactly: a rate or an average is held as a whole    *)
(* number of Unit-ths, Unit being a common multiple of every possible       *)
(* divisor (a number of tasks, times the ticks of an hour), and the score,  *)
(* a sum of rates weighted in hundredths, as a whole number of              *)
(* (100 * Unit)-ths.                                                        *)
(***************************************************************************)
\* a null timestamp
Null == -1

\* a null (or empty, equally falsy) string
NullStr == ""

\* the divisor that converts a difference of timestamps into hours
TicksPerHour == 10

RECURSIVE Gcd(_, _)
Gcd(a, b) == IF b = 0 THEN a ELSE Gcd(b, a % b)

RECURSIVE LcmUpTo(_)
LcmUpTo(n) ==
    IF n <= 1 THEN 1
    ELSE LET m == LcmUpTo(n - 1) IN (m * n) \div Gcd(m, n)

\* Math.max
Max(a, b) == IF a < b THEN b ELSE a

Unit == TicksPerHour * LcmUpTo(Max(MaxPerfTasks, MaxScenarioTasks))

\* a conversion to tenths that drops the further decimals
toFixed1_truncating(n, d) ==
    IF n >= 0 THEN (10 * n) \div d
    ELSE -((10 * (-n)) \div d)

\* parseFloat(x.toFixed(1)) of the number x = n / d (d > 0), in tenths: the
\* nearest tenth, a tie going away from zero
toFixed1(n, d) ==
    IF n >= 0 THEN (20 * n + d) \div (2 * d)
    ELSE -((20 * (-n) + d) \div (2 * d))

\* Array.prototype.filter(...).length
RECURSIVE CountIf(_, _, _)
CountIf(list, Test(_), k) ==
    IF k > Len(list) THEN 0
    ELSE (IF Test(list[k]) THEN 1 ELSE 0) + CountIf(list, Test, k + 1)

\* a grouping that opens a new group for every task
RECURSIVE tasksByUserFrom_noMerge(_, _, _)
tasksByUserFrom_noMerge(acc, taskList, k) ==
    IF k > Len(taskList) THEN acc
    ELSE tasksByUserFrom_noMerge(
             Append(acc, [userId |-> taskList[k].assigned_user_id,
                          userTasks |-> <<taskList[k]>>]),
             taskList, k + 1)

\* tasksByUser: the tasks grouped by assigned_user_id, as the entries of the
\* accumulator object in the order the keys were inserted
RECURSIVE tasksByUserFrom(_, _, _)
tasksByUserFrom(acc, taskList, k) ==
    IF k > Len(taskList) THEN acc
    ELSE LET task == taskList[k]
             userId == task.assigned_user_id
             at == IF \E j \in 1..Len(acc) : acc[j].userId = userId
                   THEN CHOOSE j \in 1..Len(acc) : acc[j].userId = userId
                   ELSE 0
         IN  IF at = 0
             THEN tasksByUserFrom(
                      Append(acc, [userId |-> userId, userTasks |-> <<task>>]),
                      taskList, k + 1)
             ELSE tasksByUserFrom(
                      [acc EXCEPT ![at].userTasks = Append(@, task)],
                      taskList, k + 1)

tasksByUser(taskList) == tasksByUserFrom(<<>>, taskList, 1)

\* profiles.find(p => p.id === userId): the index of the profile, 0 for undefined
findProfile(profileList, userId) ==
    IF \E k \in 1..Len(profileList) : profileList[k].id = userId
    THEN CHOOSE k \in 1..Len(profileList) :
            /\ profileList[k].id = userId
            /\ \A j \in 1..(k - 1) : profileList[j].id # userId
    ELSE 0

\* the sum of finish_time - start_time over the tasks that have both, and
\* their number
RECURSIVE CompletionTime(_, _)
CompletionTime(userTasks, k) ==
    IF k > Len(userTasks) THEN [total |-> 0, count |-> 0]
    ELSE LET rest == CompletionTime(userTasks, k + 1)
             task == userTasks[k]
         IN  IF task.start_time # Null /\ task.finish_time # Null
             THEN [total |-> rest.total + (task.finish_time - task.start_time),
                   count |-> rest.count + 1]
             ELSE rest

\* a review filter that knows in_review only
IsReview_withoutDone(task) == task.status = "in_review"

\* the filter of reviewTasks
IsReview(task) == task.status = "in_review" \/ task.status = "done"

\* an overdue filter that compares every task's deadline with the clock
IsOverdue_ignoringStatus(task, nowT) == task.deadline < nowT

\* the filter of overdueTasks, evaluated when the clock shows nowT
IsOverdue(task, nowT) ==
    IF task.status = "completed"
    THEN task.finish_time # Null /\ task.finish_time > task.deadline
    ELSE task.deadline < nowT /\ task.status # "completed"

\* an on-time filter that does not look at the status
IsOnTime_anyStatus(task) ==
    /\ task.finish_time # Null
    /\ task.finish_time <= task.deadline

\* the filter of tasksCompletedOnTime
IsOnTime(task) ==
    /\ task.status = "completed"
    /\ task.finish_time # Null
    /\ task.finish_time <= task.deadline

\* a time efficiency computed from every average, positive or not
timeEfficiencyOf_noGuard(avgCompletionTime) ==
    Max(0, 100 * Unit - (avgCompletionTime * 5))

\* timeEfficiency, from and in Unit-ths
timeEfficiencyOf(avgCompletionTime) ==
    IF avgCompletionTime > 0
    THEN Max(0, 100 * Unit - (avgCompletionTime * 5))
    ELSE 100 * Unit

\* the constants of one pass of the loop over the users, before rounding:
\* counters, rates and average in Unit-ths, score in (100 * Unit)-ths
EmployeeMetrics(userTasks, nowT) ==
    LET IsCompleted(task) == task.status = "completed"
        IsInProgress(task) == task.status = "in_progress"
        IsTodo(task) == task.status = "todo"
        IsOverdueNow(task) == IsOverdue(task, nowT)
        totalTasks == Len(userTasks)
        completedTasks == CountIf(userTasks, IsCompleted, 1)
        inProgressTasks == CountIf(userTasks, IsInProgress, 1)
        todoTasks == CountIf(userTasks, IsTodo, 1)
        reviewTasks == CountIf(userTasks, IsReview, 1)
        cancelledTasks ==
            totalTasks - (completedTasks + inProgressTasks + todoTasks + reviewTasks)
        overdueTasks == CountIf(userTasks, IsOverdueNow, 1)
        tasksCompletedOnTime == CountIf(userTasks, IsOnTime, 1)
        efficiency == IF totalTasks > 0
                      THEN ((tasksCompletedOnTime * Unit) \div totalTasks) * 100
                      ELSE 0
        completionRate == IF totalTasks > 0
                          THEN ((completedTasks * Unit) \div totalTasks) * 100
                          ELSE 0
        punctualityRate == IF completedTasks > 0
                           THEN ((tasksCompletedOnTime * Unit)
                                    \div completedTasks) * 100
                           ELSE 0
        ct == CompletionTime(userTasks, 1)
        avgCompletionTime ==
            IF ct.count > 0
            THEN (ct.total * Unit) \div (ct.count * TicksPerHour)
            ELSE 0
        timeEfficiency == timeEfficiencyOf(avgCompletionTime)
        cancellationRate ==
            IF totalTasks > 0
            THEN (((IF cancelledTasks # 0 THEN cancelledTasks ELSE 0) * Unit)
                     \div totalTasks) * 100
            ELSE 0
        cancellationScore == 100 * Unit - cancellationRate
        \* the weights 0.3, 0.25, 0.2, 0.15 and 0.1
        score == completionRate * 30 + punctualityRate * 25 + efficiency * 20
                 + timeEfficiency * 15 + Max(0, cancellationScore) * 10
    IN  [totalTasks |-> totalTasks,
         completedTasks |-> completedTasks,
         inProgressTasks |-> inProgressTasks,
         todoTasks |-> todoTasks,
         reviewTasks |-> reviewTasks,
         cancelledTasks |-> cancelledTasks,
         overdueTasks |-> overdueTasks,
         tasksCompletedOnTime |-> tasksCompletedOnTime,
         efficiency |-> efficiency,
         completionRate |-> completionRate,
         punctualityRate |-> punctualityRate,
         avgCompletionTime |-> avgCompletionTime,
         timeEfficiency |-> timeEfficiency,
         cancellationScore |-> cancellationScore,
         score |-> score]

\* the rating of a score in (100 * Unit)-ths
ratingOf(score) ==
    IF score >= 85 * 100 * Unit THEN "excellent"
    ELSE IF score >= 70 * 100 * Unit THEN "good"
    ELSE IF score >= 50 * 100 * Unit THEN "average"
    ELSE "needs_improvement"

\* the body of the loop over the users: one employee's record, with the rates,
\* the average and the score rounded to tenths
EmployeeRecord(userId, profile, userTasks, nowT) ==
    LET m == EmployeeMetrics(userTasks, nowT)
    IN  [id |-> userId,
         name |-> IF profile.full_name # NullStr THEN profile.full_name
                  ELSE IF profile.email # NullStr THEN profile.email
                  ELSE "Unknown User",
         avatar_url |-> profile.avatar_url,
         totalTasks |-> m.totalTasks,
         completedTasks |-> m.completedTasks,
         overdueTasks |-> m.overdueTasks,
         cancelledTasks |-> IF m.cancelledTasks # 0 THEN m.cancelledTasks ELSE 0,
         efficiency |-> toFixed1(m.efficiency, Unit),
         avgCompletionTime |-> toFixed1(m.avgCompletionTime, Unit),
         completionRate |-> toFixed1(m.completionRate, Unit),
         punctualityRate |-> toFixed1(m.punctualityRate, Unit),
         performanceScore |-> toFixed1(m.score, 100 * Unit),
         performanceRating |-> ratingOf(m.score)]

\* the profile a loop that does not skip unknown users would read
UnknownProfile == [id |-> NullStr, full_name |-> NullStr, email |-> NullStr,
                   avatar_url |-> NullStr]

\* the loop over the users without "if (!profile) continue"
RECURSIVE performanceData_noSkip(_, _, _, _)
performanceData_noSkip(groups, profileList, nowT, k) ==
    IF k > Len(groups) THEN <<>>
    ELSE LET at == findProfile(profileList, groups[k].userId)
             profile == IF at = 0 THEN UnknownProfile ELSE profileList[at]
         IN  <<EmployeeRecord(groups[k].userId, profile,
                              groups[k].userTasks, nowT)>>
             \o performanceData_noSkip(groups, profileList, nowT, k + 1)

\* performanceData: the loop over the entries of tasksByUser, from entry k on
RECURSIVE performanceData(_, _, _, _)
performanceData(groups, profileList, nowT, k) ==
    IF k > Len(groups) THEN <<>>
    ELSE LET at == findProfile(profileList, groups[k].userId) IN
         IF at = 0 THEN performanceData(groups, profileList, nowT, k + 1)
         ELSE <<EmployeeRecord(groups[k].userId, profileList[at],
                               groups[k].userTasks, nowT)>>
              \o performanceData(groups, profileList, nowT, k + 1)

\* the insertion of a sort that puts a record before those of equal score
RECURSIVE InsertByScore_tiesFirst(_, _)
InsertByScore_tiesFirst(sorted, rec) ==
    IF sorted = <<>> THEN <<rec>>
    ELSE IF Head(sorted).performanceScore > rec.performanceScore
    THEN <<Head(sorted)>> \o InsertByScore_tiesFirst(Tail(sorted), rec)
    ELSE <<rec>> \o sorted

\* Array.prototype.sort((a, b) => b.performanceScore - a.performanceScore):
\* a stable sort, so a record goes behind those that do not score less
RECURSIVE InsertByScore(_, _)
InsertByScore(sorted, rec) ==
    IF sorted = <<>> THEN <<rec>>
    ELSE IF Head(sorted).performanceScore >= rec.performanceScore
    THEN <<Head(sorted)>> \o InsertByScore(Tail(sorted), rec)
    ELSE <<rec>> \o sorted

RECURSIVE SortByScore(_, _)
SortByScore(list, k) ==
    IF k = 0 THEN <<>>
    ELSE InsertByScore(SortByScore(list, k - 1), list[k])

calculateEmployeePerformance(taskList, profileList, nowT) ==
    LET data == performanceData(tasksByUser(taskList), profileList, nowT, 1)
    IN  SortByScore(data, Len(data))

(***************************************************************************)
(* The task lists the caller can supply: each id is present with one of the *)
(* statuses of the task_status enum, or filtered out; ordered by id.        *)
(***************************************************************************)
RECURSIVE ListOf(_, _)
ListOf(f, k) ==
    IF k > NumTasks THEN <<>>
    ELSE IF f[k] = "absent" THEN ListOf(f, k + 1)
    ELSE <<[id |-> k, status |-> f[k]]>> \o ListOf(f, k + 1)

TaskLists == {ListOf(f, 1) : f \in [TaskIds -> TaskStatus \cup {"absent"}]}

IdsOf(list) == {list[k].id : k \in 1..Len(list)}

StatusIn(list, id) == list[FindIndex(list, id)].status

\* The lists one fetch can bring after the list cur: the server's rows as cur
\* showed them, with at most one row changed by some client in between (a
\* fetch that finds more rows changed is a sequence of such fetches).
RowsOf(list) ==
    [k \in TaskIds |-> IF k \in IdsOf(list) THEN StatusIn(list, k) ELSE "absent"]

FetchedLists(cur) ==
    {ListOf([RowsOf(cur) EXCEPT ![k] = s], 1) :
        k \in TaskIds, s \in TaskStatus \cup {"absent"}}

(***************************************************************************)
(* Kanban: initial state and events.                                       *)
(***************************************************************************)
\* a timestamp written by new Date().toISOString()
Stamp == 0

\* a row of the tasks table as it is created: todo, not started, not finished
NewRow == [status |-> "todo", start_time |-> Null, finish_time |-> Null,
           pending_approval |-> FALSE]

\* the other pages are not in use
RowsIdle == rows = [id \in TaskIds |-> NewRow]

\* user = null, role = null
NoUser == "null"

NoRole == "null"

\* deadline requests, each for a task of its own, and the administrators
NumRequests == 2

RequestIds == 1..NumRequests

Admins == {"a1", "a2"}

\* the deadline of the task of request r when the request was made, and the
\* deadline the request asks for
CurrentDeadline(r) == 10 * r

RequestedDeadline(r) == 10 * r + 5

\* a deadline request as it is created
NewRequest == [status |-> "pending", reviewed_by |-> NoUser]

\* the list of an AdminRequests page that has not loaded: no request shown
NoList == [r \in RequestIds |-> "none"]

AuthIdle ==
    /\ user = NoUser
    /\ role = NoRole
    /\ isApproved = "null"
    /\ loading = TRUE
    /\ sessionChecked = FALSE
    /\ fetches = {}
    /\ roleFor = NoUser
    /\ approvedFor = NoUser

RequestsIdle ==
    /\ requests = [r \in RequestIds |-> NewRequest]
    /\ deadline = [r \in RequestIds |-> CurrentDeadline(r)]
    /\ requestLists = [a \in Admins |-> NoList]
    /\ handlers = {}

ListIdle ==
    /\ listTasks = <<>>
    /\ page = 0
    /\ hasMore = TRUE
    /\ listLoading = TRUE
    /\ loadingMore = FALSE
    /\ listFetches = <<>>

PagesIdle == AuthIdle /\ RequestsIdle /\ ListIdle

RestIdle == RowsIdle /\ PagesIdle

\* no end_drag event
NoDrop == [id |-> NoId, present |-> FALSE, activeContainer |-> NoContainer,
           overContainer |-> NoContainer]

KanbanInit ==
    /\ isAdmin \in BOOLEAN
    /\ tasks \in TaskLists
    /\ localTasks = tasks
    /\ activeId = NoId
    /\ lastOver = NoContainer
    /\ moved = FALSE
    /\ dropped = NoDrop
    /\ calls = <<>>
    /\ inflight = 0
    /\ perfTasks = <<>>
    /\ now = 0
    /\ report = <<>>
    /\ pending = {}
    /\ RestIdle

\* begin_drag: handleDragStart on a card of the local copy
DragStart(id) ==
    /\ activeId = NoId
    /\ id \in IdsOf(localTasks)
    /\ activeId' = id
    /\ lastOver' = NoContainer
    /\ moved' = FALSE
    /\ calls' = <<>>
    /\ dropped' = NoDrop
    /\ UNCHANGED <<isAdmin, tasks, localTasks, inflight>>
    /\ UNCHANGED offBoardVars

\* drag_over
DragOver(over) ==
    /\ activeId # NoId
    /\ localTasks' = handleDragOver(localTasks, isAdmin, activeId, over)
    /\ lastOver' = IF over.present THEN findContainer(localTasks, over)
                   ELSE NoContainer
    /\ moved' = (moved \/ localTasks' # localTasks)
    /\ calls' = <<>>
    /\ dropped' = NoDrop
    /\ UNCHANGED <<isAdmin, tasks, activeId, inflight>>
    /\ UNCHANGED offBoardVars

\* end_drag, as far as the board is concerned
DragEndBoard(over) ==
    /\ activeId # NoId
    /\ LET r == handleDragEnd(localTasks, tasks, isAdmin, activeId, over) IN
        /\ localTasks' = r.local
        /\ calls' = r.calls
    /\ dropped' = [id |-> activeId, present |-> over.present,
                   activeContainer |-> findContainerOfTask(localTasks, activeId),
                   overContainer |-> IF over.present
                                     THEN findContainer(localTasks, over)
                                     ELSE NoContainer]
    /\ activeId' = NoId
    /\ lastOver' = NoContainer
    /\ moved' = FALSE
    /\ UNCHANGED <<isAdmin, tasks>>
    /\ UNCHANGED offBoardVars

\* end_drag on a board whose caller is left out
DragEnd(over) ==
    /\ DragEndBoard(over)
    /\ UNCHANGED inflight

\* the caller replaces the task list (poll, realtime event, refetch)
Refresh(newTasks) ==
    /\ tasks' = newTasks
    /\ localTasks' = useEffectTasks(localTasks, newTasks)
    /\ calls' = <<>>
    /\ dropped' = NoDrop
    /\ UNCHANGED <<isAdmin, activeId, lastOver, moved, inflight>>
    /\ UNCHANGED offBoardVars

\* The board under every sequence of drag events and replacements of the list.
KanbanNext ==
    \/ \E id \in TaskIds : DragStart(id)
    \/ \E over \in OverTargets : DragOver(over)
    \/ \E over \in OverTargets : DragEnd(over)
    \/ \E newTasks \in FetchedLists(tasks) : Refresh(newTasks)

Spec == KanbanInit /\ [][KanbanNext]_vars

(***************************************************************************)
(* The board with its caller UserDashboard: onStatusChange is               *)
(* handleStatusChange, which awaits the update of the row and refetches the *)
(* list after a success only.                                               *)
(***************************************************************************)
\* end_drag; each call of onStatusChange starts a run of handleStatusChange
DragEndCalling(over) ==
    /\ DragEndBoard(over)
    /\ inflight + Len(calls') <= MaxInFlight
    /\ inflight' = inflight + Len(calls')

\* handleStatusChange: the update succeeded, fetchTasks(false, true) follows
UpdateSucceeds(newTasks) ==
    /\ inflight > 0
    /\ inflight' = inflight - 1
    /\ tasks' = newTasks
    /\ localTasks' = useEffectTasks(localTasks, newTasks)
    /\ calls' = <<>>
    /\ dropped' = NoDrop
    /\ UNCHANGED <<isAdmin, activeId, lastOver, moved>>
    /\ UNCHANGED offBoardVars

\* handleStatusChange: the update failed, the catch branch only shows a toast
UpdateFails ==
    /\ inflight > 0
    /\ inflight' = inflight - 1
    /\ calls' = <<>>
    /\ dropped' = NoDrop
    /\ UNCHANGED <<isAdmin, tasks, localTasks, activeId, lastOver, moved>>
    /\ UNCHANGED offBoardVars

CallerNext ==
    \/ \E id \in TaskIds : DragStart(id)
    \/ \E over \in OverTargets : DragOver(over)
    \/ \E over \in OverTargets : DragEndCalling(over)
    \/ \E newTasks \in FetchedLists(tasks) : Refresh(newTasks)
    \/ \E newTasks \in FetchedLists(tasks) : UpdateSucceeds(newTasks)
    \/ UpdateFails

SpecCaller == KanbanInit /\ [][CallerNext]_vars

(***************************************************************************)
(* The scoring function under every task list of bounded length, at a time  *)
(* before or after the deadlines: the list grows by one task at a time and  *)
(* AdminDashboard recomputes the report from each snapshot.                 *)
(***************************************************************************)
\* the profiles argument: u1 has a full name, u2 only an email address; the
\* user id u3 has no profile
profiles ==
    <<[id |-> "u1", full_name |-> "Ann", email |-> "ann@x", avatar_url |-> "a.png"],
      [id |-> "u2", full_name |-> NullStr, email |-> "bob@x", avatar_url |-> NullStr]>>

UserIds == {"u1", "u2", "u3"}

\* the five statuses of the enum and one the code does not recognize
PerfStatuses == TaskStatus \cup {"cancelled"}

\* start, finish and deadline of a task, in ticks: no timestamps, finished on
\* time, finished late (after 6.7 hours), finished before it started
PerfTimes ==
    {[start_time |-> Null, finish_time |-> Null, deadline |-> 20],
     [start_time |-> 0, finish_time |-> 10, deadline |-> 20],
     [start_time |-> 0, finish_time |-> 67, deadline |-> 20],
     [start_time |-> 40, finish_time |-> 30, deadline |-> 20]}

PerfTaskInputs ==
    {[assigned_user_id |-> u, status |-> st, start_time |-> t.start_time,
      finish_time |-> t.finish_time, deadline |-> t.deadline] :
        u \in UserIds, st \in PerfStatuses, t \in PerfTimes}

\* the clock: before and after the deadlines
Clock == {10, 30}

ScoreInit ==
    /\ perfTasks = <<>>
    /\ now \in Clock
    /\ report = calculateEmployeePerformance(perfTasks, profiles, now)
    /\ pending = {}
    /\ RestIdle
    /\ isAdmin = FALSE
    /\ tasks = <<>>
    /\ localTasks = <<>>
    /\ activeId = NoId
    /\ lastOver = NoContainer
    /\ moved = FALSE
    /\ dropped = NoDrop
    /\ calls = <<>>
    /\ inflight = 0

\* a task is added to the snapshot and the report is recomputed
AddTask(task) ==
    /\ Len(perfTasks) < MaxPerfTasks
    /\ perfTasks' = Append(perfTasks, task)
    /\ report' = calculateEmployeePerformance(perfTasks', profiles, now)
    /\ UNCHANGED now
    /\ UNCHANGED offScoreVars

ScoreNext == \E task \in PerfTaskInputs : AddTask(task)

SpecScore == ScoreInit /\ [][ScoreNext]_vars

(***************************************************************************)
(* The board rendering the lists a server could send if the status column   *)
(* held other strings than the five of the enum: tasksByStatus is computed  *)
(* from the local copy at every rendering.                                  *)
(***************************************************************************)
\* the five statuses and two strings that are none of them
GroupStatuses == TaskStatus \cup {"cancelled", "constructor"}

GroupTaskLists == {ListOf(f, 1) : f \in [TaskIds -> GroupStatuses \cup {"absent"}]}

GroupFetchedLists(cur) ==
    {ListOf([RowsOf(cur) EXCEPT ![k] = s], 1) :
        k \in TaskIds, s \in GroupStatuses \cup {"absent"}}

GroupInit ==
    /\ isAdmin \in BOOLEAN
    /\ tasks \in GroupTaskLists
    /\ localTasks = tasks
    /\ activeId = NoId
    /\ lastOver = NoContainer
    /\ moved = FALSE
    /\ dropped = NoDrop
    /\ calls = <<>>
    /\ inflight = 0
    /\ perfTasks = <<>>
    /\ now = 0
    /\ report = <<>>
    /\ pending = {}
    /\ RestIdle

GroupNext == \E newTasks \in GroupFetchedLists(tasks) : Refresh(newTasks)

SpecGroup == GroupInit /\ [][GroupNext]_vars

(***************************************************************************)
(* TaskCard (components/TaskCard.tsx): the controls of a card that call     *)
(* onStatusChange.  The board renders a card for every task of a displayed  *)
(* column of the local copy; the admin's task page renders one for every    *)
(* task of its list.                                                        *)
(***************************************************************************)
\* getNextStatus returning null
NoNextStatus == "null"

\* a status flow that ignores the role
getNextStatus_adminFlow(admin, currentStatus) ==
    CASE currentStatus = "todo" -> "in_progress"
      [] currentStatus = "in_progress" -> "in_review"
      [] currentStatus = "in_review" -> "completed"
      [] OTHER -> NoNextStatus

\* getNextStatus: statusFlow[currentStatus], undefined counting as null
getNextStatus(admin, currentStatus) ==
    CASE currentStatus = "todo" -> "in_progress"
      [] currentStatus = "in_progress" -> "in_review"
      [] currentStatus = "in_review" -> IF admin THEN "completed" ELSE NoNextStatus
      [] currentStatus = "done" -> NoNextStatus
      [] currentStatus = "completed" -> NoNextStatus
      [] OTHER -> NoNextStatus

\* the condition under which the user's status button is rendered
UserButtonShown(admin, status, pendingApproval) ==
    ~admin /\ getNextStatus(admin, status) # NoNextStatus /\ ~pendingApproval

\* the condition under which the admin's "Mark as Completed" is rendered
MarkCompletedShown(admin, status) == admin /\ status = "in_review"

\* an admin dropdown rendered for every task
DropdownShown_always(admin, status) == admin

\* the condition under which the admin's "Change Status" dropdown is rendered
DropdownShown(admin, status) == admin /\ status # "completed"

\* the items of the dropdown that are not disabled
DropdownItems(status) == {"todo", "in_progress", "in_review", "completed"} \ {status}

\* a card of the board: a task of the local copy in a displayed column
BoardCard(id) ==
    /\ id \in IdsOf(localTasks)
    /\ StatusIn(localTasks, id) \in columnIds

\* the user clicks the status button of a card of the board
ClickStatusButton(id) ==
    /\ activeId = NoId
    /\ BoardCard(id)
    /\ UserButtonShown(isAdmin, StatusIn(localTasks, id), id \in pending)
    /\ calls' = <<[taskId |-> id,
                   status |-> getNextStatus(isAdmin, StatusIn(localTasks, id))]>>
    /\ dropped' = NoDrop
    /\ UNCHANGED <<isAdmin, tasks, localTasks, activeId, lastOver, moved, inflight>>
    /\ UNCHANGED offBoardVars

\* the admin clicks "Mark as Completed" on a card of the task page
ClickMarkCompleted(id) ==
    /\ activeId = NoId
    /\ id \in IdsOf(tasks)
    /\ MarkCompletedShown(isAdmin, StatusIn(tasks, id))
    /\ calls' = <<[taskId |-> id, status |-> "completed"]>>
    /\ dropped' = NoDrop
    /\ UNCHANGED <<isAdmin, tasks, localTasks, activeId, lastOver, moved, inflight>>
    /\ UNCHANGED offBoardVars

\* the admin selects an item of the "Change Status" dropdown
SelectStatus(id, status) ==
    /\ activeId = NoId
    /\ id \in IdsOf(tasks)
    /\ DropdownShown(isAdmin, StatusIn(tasks, id))
    /\ status \in DropdownItems(StatusIn(tasks, id))
    /\ calls' = <<[taskId |-> id, status |-> status]>>
    /\ dropped' = NoDrop
    /\ UNCHANGED <<isAdmin, tasks, localTasks, activeId, lastOver, moved, inflight>>
    /\ UNCHANGED offBoardVars

\* The rows one fetch can bring after the rows cur with the flags curPending:
\* at most one row differs, in its status, its pending_approval or both.
FetchedCards(cur, curPending) ==
    {[list |-> ListOf([RowsOf(cur) EXCEPT ![k] = s], 1),
      flagged |-> IF s # "absent" /\ f THEN curPending \cup {k}
                  ELSE curPending \ {k}] :
        k \in TaskIds, s \in TaskStatus \cup {"absent"}, f \in BOOLEAN}

\* the page replaces the task list; the new rows bring their pending_approval
RefreshCards(newTasks, newPending) ==
    /\ tasks' = newTasks
    /\ localTasks' = useEffectTasks(localTasks, newTasks)
    /\ pending' = newPending
    /\ calls' = <<>>
    /\ dropped' = NoDrop
    /\ UNCHANGED <<isAdmin, activeId, lastOver, moved, inflight>>
    /\ UNCHANGED <<scoreVars, restVars>>

CardsInit ==
    /\ isAdmin \in BOOLEAN
    /\ tasks \in TaskLists
    /\ localTasks = tasks
    /\ activeId = NoId
    /\ lastOver = NoContainer
    /\ moved = FALSE
    /\ dropped = NoDrop
    /\ calls = <<>>
    /\ inflight = 0
    /\ perfTasks = <<>>
    /\ now = 0
    /\ report = <<>>
    /\ pending \in SUBSET IdsOf(tasks)
    /\ RestIdle

\* The client under every sequence of drag events, clicks on the cards'
\* controls and replacements of the list.
CardsNext ==
    \/ \E id \in TaskIds : DragStart(id)
    \/ \E over \in OverTargets : DragOver(over)
    \/ \E over \in OverTargets : DragEnd(over)
    \/ \E id \in TaskIds : ClickStatusButton(id)
    \/ \E id \in TaskIds : ClickMarkCompleted(id)
    \/ \E id \in TaskIds, status \in TaskStatus : SelectStatus(id, status)
    \/ \E fetched \in FetchedCards(tasks, pending) :
         RefreshCards(fetched.list, fetched.flagged)

SpecCards == CardsInit /\ [][CardsNext]_vars

(***************************************************************************)
(* UserDashboard.handleStatusChange (pages/AdminTasks.tsx) and the tasks    *)
(* table: each request of the user is handled with the page's list as the   *)
(* last refetch left it, that is, with the rows as they are.                *)
(***************************************************************************)
\* the board and its cards are at rest
BoardIdle ==
    /\ isAdmin = FALSE
    /\ tasks = <<>>
    /\ localTasks = <<>>
    /\ activeId = NoId
    /\ lastOver = NoContainer
    /\ moved = FALSE
    /\ dropped = NoDrop
    /\ calls = <<>>
    /\ inflight = 0
    /\ pending = {}

ScoreIdle ==
    /\ perfTasks = <<>>
    /\ now = 0
    /\ report = <<>>

\* handleStatusChange(taskId, status): the row after the update it sends, task
\* being the row as the page's list shows it
handleStatusChange(task, status) ==
    LET u1 == [task EXCEPT !.status = status]
        u2 == IF task.status = "completed" /\ status # "completed"
              THEN [u1 EXCEPT !.finish_time = Null] ELSE u1
        u3 == IF status = "in_progress" /\ task.start_time = Null
              THEN [u2 EXCEPT !.start_time = Stamp] ELSE u2
        u4 == IF task.status = "in_progress" /\ status = "todo"
              THEN [u3 EXCEPT !.start_time = Null] ELSE u3
        u5 == IF status = "in_review" /\ task.finish_time = Null
              THEN [u4 EXCEPT !.finish_time = Stamp] ELSE u4
        u6 == IF status = "completed"
              THEN [u5 EXCEPT !.pending_approval = FALSE,
                              !.finish_time = IF task.finish_time = Null
                                              THEN Stamp ELSE @]
              ELSE u5
        u7 == IF task.pending_approval /\ status # "completed"
              THEN [u6 EXCEPT !.pending_approval = FALSE] ELSE u6
    IN  u7

\* the statuses a non-admin's drag can commit for a task of status st: the
\* columns other than completed, for a task that is not in completed
DragDestinations(st) ==
    IF st \in {"completed", "done"} THEN {}
    ELSE {"todo", "in_progress", "in_review"} \ {st}

\* the user clicks the status button of task id and the update succeeds
ButtonRequest(id) ==
    /\ UserButtonShown(FALSE, rows[id].status, rows[id].pending_approval)
    /\ LET status == getNextStatus(FALSE, rows[id].status) IN
        /\ calls' = <<[taskId |-> id, status |-> status]>>
        /\ rows' = [rows EXCEPT ![id] = handleStatusChange(rows[id], status)]
    /\ UNCHANGED <<isAdmin, tasks, localTasks, activeId, lastOver, moved, dropped,
                   inflight>>
    /\ UNCHANGED <<scoreVars, cardVars, pagesVars>>

\* the user drags task id to the column status and the update succeeds
DragRequest(id, status) ==
    /\ status \in DragDestinations(rows[id].status)
    /\ calls' = <<[taskId |-> id, status |-> status]>>
    /\ rows' = [rows EXCEPT ![id] = handleStatusChange(rows[id], status)]
    /\ UNCHANGED <<isAdmin, tasks, localTasks, activeId, lastOver, moved, dropped,
                   inflight>>
    /\ UNCHANGED <<scoreVars, cardVars, pagesVars>>

\* a request of the user whose update fails: the row stays as it is
RequestFails(id, status) ==
    /\ \/ /\ UserButtonShown(FALSE, rows[id].status, rows[id].pending_approval)
          /\ status = getNextStatus(FALSE, rows[id].status)
       \/ status \in DragDestinations(rows[id].status)
    /\ calls' = <<[taskId |-> id, status |-> status]>>
    /\ UNCHANGED <<isAdmin, tasks, localTasks, activeId, lastOver, moved, dropped,
                   inflight>>
    /\ UNCHANGED <<scoreVars, cardVars, rowVars, pagesVars>>

RowsInit ==
    /\ BoardIdle
    /\ ScoreIdle
    /\ rows = [id \in TaskIds |-> NewRow]
    /\ PagesIdle

RowsNext ==
    \/ \E id \in TaskIds : ButtonRequest(id)
    \/ \E id \in TaskIds, status \in TaskStatus : DragRequest(id, status)
    \/ \E id \in TaskIds, status \in TaskStatus : RequestFails(id, status)

SpecRows == RowsInit /\ [][RowsNext]_vars

(***************************************************************************)
(* The scoring function on the task lists of one employee, long enough for  *)
(* the scenarios of the specification: completed tasks finished on time or  *)
(* late, and open tasks, before and after the deadline.                     *)
(***************************************************************************)
ScenarioTaskInputs ==
    {[assigned_user_id |-> "u1", status |-> "completed", start_time |-> 0,
      finish_time |-> 10, deadline |-> 20],
     [assigned_user_id |-> "u1", status |-> "completed", start_time |-> 0,
      finish_time |-> 67, deadline |-> 20],
     [assigned_user_id |-> "u1", status |-> "todo", start_time |-> Null,
      finish_time |-> Null, deadline |-> 20],
     [assigned_user_id |-> "u1", status |-> "in_progress", start_time |-> 0,
      finish_time |-> Null, deadline |-> 20]}

AddScenarioTask(task) ==
    /\ Len(perfTasks) < MaxScenarioTasks
    /\ perfTasks' = Append(perfTasks, task)
    /\ report' = calculateEmployeePerformance(perfTasks', profiles, now)
    /\ UNCHANGED now
    /\ UNCHANGED offScoreVars

ScenarioNext == \E task \in ScenarioTaskInputs : AddScenarioTask(task)

SpecScenario == ScoreInit /\ [][ScenarioNext]_vars

(***************************************************************************)
(* Properties of the board.                                                *)
(***************************************************************************)
HasTask(list, id) == id \in IdsOf(list)

\* the last event was an end_drag
JustDropped == dropped.id # NoId

\* this step is an end_drag / a begin_drag
IsDragEndStep == activeId # NoId /\ activeId' = NoId

IsDragStartStep == activeId = NoId /\ activeId' # NoId

\* C1: when a non-admin drops a task whose external status is todo on the
\* completed column (the column itself or a card resolved to it), whatever was
\* hovered before, the task's local status after end_drag is todo again and
\* onStatusChange is not called.
C1_NonAdminDropOnCompleted ==
    ( /\ JustDropped
      /\ ~isAdmin
      /\ dropped.overContainer = "completed"
      /\ HasTask(tasks, dropped.id)
      /\ StatusIn(tasks, dropped.id) = "todo" )
    => /\ calls = <<>>
       /\ HasTask(localTasks, dropped.id)
       /\ StatusIn(localTasks, dropped.id) = "todo"

\* C1 witness: a non-admin dropped a todo task on the completed column after a
\* hover had moved it to in_progress in the local copy.
C1_Witness ==
    /\ JustDropped
    /\ ~isAdmin
    /\ dropped.overContainer = "completed"
    /\ dropped.activeContainer = "in_progress"
    /\ HasTask(tasks, dropped.id)
    /\ StatusIn(tasks, dropped.id) = "todo"

\* C2: a task whose external status is completed keeps the status completed in
\* the local copy under every sequence of drag events, for either role, and
\* onStatusChange is never called for it.
C2_CompletedIsTerminal ==
    \A i \in IdsOf(tasks) :
        StatusIn(tasks, i) = "completed"
        => /\ HasTask(localTasks, i)
           /\ StatusIn(localTasks, i) = "completed"
           /\ \A k \in 1..Len(calls) : calls[k].taskId # i

\* C2 witness: an admin's gesture on a completed task ended over another column.
C2_Witness ==
    /\ JustDropped
    /\ isAdmin
    /\ HasTask(tasks, dropped.id)
    /\ StatusIn(tasks, dropped.id) = "completed"
    /\ dropped.present
    /\ dropped.overContainer \in columnIds \ {"completed"}

\* the two restrictions of end_drag, on the containers it resolved
GuardsPass(activeContainer, overContainer) ==
    /\ activeContainer # NoContainer
    /\ overContainer # NoContainer
    /\ ~(activeContainer = "completed" /\ overContainer # "completed")
    /\ ~(~isAdmin /\ overContainer = "completed")

\* C3: end_drag calls onStatusChange exactly once, with the task id and the
\* task's local status, when the drop target resolves to a column, both
\* restrictions pass and the task's local status differs from its external
\* status; otherwise it makes no call.  No other event makes a call, so a
\* gesture makes at most one.
C3_CommitExactlyWhenChanged ==
    [][ /\ ~IsDragEndStep => calls' = <<>>
        /\ IsDragEndStep =>
             LET id == activeId
                 changed == /\ HasTask(localTasks, id)
                            /\ HasTask(tasks, id)
                            /\ StatusIn(localTasks, id) # StatusIn(tasks, id)
             IN  IF /\ dropped'.present
                    /\ GuardsPass(findContainerOfTask(localTasks, id),
                                  dropped'.overContainer)
                    /\ changed
                 THEN calls' = <<[taskId |-> id,
                                  status |-> StatusIn(localTasks, id)]>>
                 ELSE calls' = <<>>
      ]_kanbanVars

\* C3 witness: an end_drag has just called onStatusChange.
C3_Witness ==
    /\ JustDropped
    /\ Len(calls) = 1
    /\ calls[1].taskId = dropped.id
    /\ calls[1].status = dropped.overContainer

\* C4: after an end_drag with nothing under the pointer, or one refused by a
\* restriction (the dragged task is in the completed column and the destination
\* is another column; a non-admin drops on completed), the local copy equals
\* the external list and onStatusChange was not called.
C4_RefusedDropReverts ==
    ( /\ JustDropped
      /\ \/ ~dropped.present
         \/ /\ dropped.activeContainer = "completed"
            /\ dropped.overContainer \in columnIds \ {"completed"}
         \/ /\ ~isAdmin
            /\ dropped.overContainer = "completed" )
    => /\ localTasks = tasks
       /\ calls = <<>>

\* C4 witness: a gesture that had moved the task in the local copy ended with
\* nothing under the pointer.
C4_Witness ==
    /\ JustDropped
    /\ ~dropped.present
    /\ HasTask(tasks, dropped.id)
    /\ dropped.activeContainer # findContainerOfTask(tasks, dropped.id)

\* C5: every gesture that ends over a legal destination column other than the
\* column of the task's external status (that column is not completed; the
\* destination is not completed for a non-admin), the pointer's last drag_over
\* having resolved to that column, calls onStatusChange exactly once with the
\* destination's status.
C5_LegalDropCommitsDestination ==
    [][ ( /\ IsDragEndStep
          /\ dropped'.present
          /\ dropped'.overContainer \in columnIds
          /\ lastOver = dropped'.overContainer
          /\ HasTask(tasks, activeId)
          /\ findContainerOfTask(tasks, activeId) # dropped'.overContainer
          /\ findContainerOfTask(tasks, activeId) # "completed"
          /\ (isAdmin \/ dropped'.overContainer # "completed") )
        => calls' = <<[taskId |-> activeId, status |-> dropped'.overContainer]>>
      ]_kanbanVars

\* C6: at every begin_drag the local copy equals the external list.
C6_NoOptimisticStateAcrossGestures ==
    [][ IsDragStartStep => localTasks = tasks ]_kanbanVars

\* C7: whenever the external task list changes, the local copy becomes equal to
\* the new list.
C7_ExternalChangeResetsLocal ==
    [][ tasks' # tasks => localTasks' = tasks' ]_kanbanVars

\* C7 witness: during a non-admin's gesture on a task outside the completed
\* column the last drag_over resolved to a legal column, yet the task is not in
\* that column and the local copy equals the external list: a replacement of
\* the list discarded the move.
C7_Witness ==
    /\ activeId # NoId
    /\ ~isAdmin
    /\ lastOver \in columnIds \ {"completed"}
    /\ HasTask(localTasks, activeId)
    /\ findContainerOfTask(localTasks, activeId) \notin {"completed", lastOver}
    /\ localTasks = tasks

InList(list, task) == \E k \in 1..Len(list) : list[k] = task

\* C8: every task of the local copy with the legacy status done is listed in
\* the completed column and in no other displayed column, with its status
\* still done.
C8_DoneGroupedIntoCompleted ==
    \A k \in 1..Len(localTasks) :
        localTasks[k].status = "done"
        => /\ InList(ColumnTasks(localTasks, "completed"), localTasks[k])
           /\ \A c \in columnIds \ {"completed"} :
                ~InList(ColumnTasks(localTasks, c), localTasks[k])

(***************************************************************************)
(* Properties of the scoring function.                                     *)
(***************************************************************************)
ProfileIds == {profiles[k].id : k \in 1..Len(profiles)}

HasProfile(task) == task.assigned_user_id \in ProfileIds

\* the positions of the tasks assigned to user u
TasksOf(u) == {j \in 1..Len(perfTasks) : perfTasks[j].assigned_user_id = u}

\* C9: the report has exactly one record per assigned user id that has a task
\* and a profile; totalTasks of a record is the number of tasks assigned to its
\* id, at least 1; no id occurs twice and a profile without tasks has no record.
C9_OneRecordPerEmployeeWithTasks ==
    /\ {report[k].id : k \in 1..Len(report)}
         = {u \in ProfileIds : TasksOf(u) # {}}
    /\ \A k, j \in 1..Len(report) : report[k].id = report[j].id => k = j
    /\ \A k \in 1..Len(report) :
         /\ report[k].totalTasks = Cardinality(TasksOf(report[k].id))
         /\ report[k].totalTasks >= 1

\* C9 witness: one employee has two tasks, the other profile has none.
C9_Witness ==
    /\ Len(report) = 1
    /\ report[1].totalTasks = 2
    /\ Len(perfTasks) = 2

\* C10: tasks assigned to an id without a profile are left out: the report is
\* the report of the same snapshot without those tasks, record by record and
\* field by field, and has no record for such an id.
C10_UnknownUsersExcluded ==
    /\ \A k \in 1..Len(report) : report[k].id \in ProfileIds
    /\ (\E j \in 1..Len(perfTasks) : ~HasProfile(perfTasks[j]))
       => report = calculateEmployeePerformance(
                       SelectSeq(perfTasks, HasProfile), profiles, now)

\* C10 witness: the snapshot has a task of an unknown user between or beside
\* the tasks of an employee, who is reported.
C10_Witness ==
    /\ Len(perfTasks) >= 2
    /\ ~HasProfile(perfTasks[1])
    /\ HasProfile(perfTasks[2])
    /\ Len(report) = 1

(***************************************************************************)
(* Properties of the report: the counters and rates of the specification,  *)
(* counted on the task list itself.                                         *)
(***************************************************************************)
\* among the positions of employee u's tasks, those of the tasks that are
\* completed, completed on time, timed, of an unrecognized status
CompletedIdx(u) == {k \in TasksOf(u) : perfTasks[k].status = "completed"}

OnTimeIdx(u) ==
    {k \in CompletedIdx(u) : /\ perfTasks[k].finish_time # Null
                             /\ perfTasks[k].finish_time <= perfTasks[k].deadline}

TimedIdx(u) ==
    {k \in TasksOf(u) : /\ perfTasks[k].start_time # Null
                    /\ perfTasks[k].finish_time # Null}

UnrecognizedIdx(u) == {k \in TasksOf(u) : perfTasks[k].status \notin TaskStatus}

\* the record of employee u in the report
HasRecord(u) == \E k \in 1..Len(report) : report[k].id = u

RecordOf(u) == report[CHOOSE k \in 1..Len(report) : report[k].id = u]

\* what the loop computes for employee u
UserTasksOf(u) ==
    SelectSeq(perfTasks, LAMBDA task : task.assigned_user_id = u)

MetricsOf(u) == EmployeeMetrics(UserTasksOf(u), now)

\* a percentage in tenths / in Unit-ths
IsPercentTenths(x) == x \in 0..1000

IsPercentUnits(x) == x >= 0 /\ x <= 100 * Unit

\* C11: in every returned record completionRate, punctualityRate and
\* efficiency lie in [0, 100], before and after rounding, because
\* tasksCompletedOnTime <= completedTasks <= totalTasks; punctualityRate is 0
\* when completedTasks is 0, and no rate is computed with a zero divisor
\* (totalTasks is positive in every record).
C11_RatesWithinBounds ==
    \A k \in 1..Len(report) :
        LET rec == report[k]
            m == MetricsOf(rec.id)
        IN  /\ m.tasksCompletedOnTime <= m.completedTasks
            /\ m.completedTasks <= m.totalTasks
            /\ rec.totalTasks > 0
            /\ IsPercentTenths(rec.completionRate)
            /\ IsPercentTenths(rec.punctualityRate)
            /\ IsPercentTenths(rec.efficiency)
            /\ IsPercentUnits(m.completionRate)
            /\ IsPercentUnits(m.punctualityRate)
            /\ IsPercentUnits(m.efficiency)
            /\ (rec.completedTasks = 0 => rec.punctualityRate = 0)
            /\ (rec.completedTasks = 0 => m.punctualityRate = 0)

\* two records: one without a completed task, one whose completed tasks are
\* all on time
C11_Witness ==
    /\ Len(report) = 2
    /\ \E k \in 1..2 : /\ report[k].completedTasks = 0
                       /\ report[k].punctualityRate = 0
    /\ \E k \in 1..2 : /\ report[k].completedTasks = 1
                       /\ report[k].punctualityRate = 1000

RECURSIVE SumDurations(_)
SumDurations(S) ==
    IF S = {} THEN 0
    ELSE LET k == CHOOSE j \in S : TRUE
         IN  (perfTasks[k].finish_time - perfTasks[k].start_time)
             + SumDurations(S \ {k})

\* the weighted sum of the specification for employee u, in (100 * Unit)-ths
AvgHoursOf(u) ==
    IF TimedIdx(u) = {} THEN 0
    ELSE (SumDurations(TimedIdx(u)) * Unit)
            \div (Cardinality(TimedIdx(u)) * TicksPerHour)

TimeEfficiencyTermOf(u) ==
    IF AvgHoursOf(u) > 0 THEN Max(0, 100 * Unit - 5 * AvgHoursOf(u))
    ELSE 100 * Unit

CancellationTermOf(u) ==
    Max(0, 100 * Unit
           - (100 * Unit * Cardinality(UnrecognizedIdx(u)))
                \div Cardinality(TasksOf(u)))

CompositeOf(u) ==
    LET n == Cardinality(TasksOf(u))
        c == Cardinality(CompletedIdx(u))
        o == Cardinality(OnTimeIdx(u))
    IN  30 * ((100 * Unit * c) \div n)
        + 25 * (IF c > 0 THEN (100 * Unit * o) \div c ELSE 0)
        + 20 * ((100 * Unit * o) \div n)
        + 15 * TimeEfficiencyTermOf(u)
        + 10 * CancellationTermOf(u)

RatingOfReported(tenths) ==
    IF tenths >= 850 THEN "excellent"
    ELSE IF tenths >= 700 THEN "good"
    ELSE IF tenths >= 500 THEN "average"
    ELSE "needs_improvement"

\* C13: in every returned record the rating is the one the thresholds 85, 70
\* and 50 give to the performanceScore of that record, the score rounded to
\* one decimal.
C13_RatingAgreesWithReportedScore ==
    \A k \in 1..Len(report) :
        report[k].performanceRating = RatingOfReported(report[k].performanceScore)

\* the position of employee u's first task in the list
FirstTaskOf(u) == CHOOSE k \in TasksOf(u) : \A j \in TasksOf(u) : k <= j

\* C14: the report is non-increasing in performanceScore; records of equal
\* score stand in the order in which their employees' first tasks appear in
\* the list; sorting the report by score again returns the same sequence.
C14_SortedStableIdempotent ==
    /\ \A i \in 1..Len(report) : \A j \in (i + 1)..Len(report) :
        /\ report[i].performanceScore >= report[j].performanceScore
        /\ (report[i].performanceScore = report[j].performanceScore
            => FirstTaskOf(report[i].id) < FirstTaskOf(report[j].id))
    /\ SortByScore(report, Len(report)) = report

\* two employees of equal score, the one met first being the second of the
\* profiles
C14_Witness ==
    /\ Len(report) = 2
    /\ report[1].performanceScore = report[2].performanceScore
    /\ report[1].id = "u2"
    /\ perfTasks[1].assigned_user_id = "u2"

\* C15: the report is a function of tasks and profiles alone: computed from
\* the same list at any other moment it is the same report, field by field
\* (overdueTasks included) and in the same order.
C15_SameReportAtAnyMoment ==
    \A t \in Clock : calculateEmployeePerformance(perfTasks, profiles, t) = report

\* among the positions of employee u's tasks, those of the tasks completed
\* after their deadline and of the open tasks whose deadline has passed
LateIdx(u) ==
    {k \in CompletedIdx(u) : /\ perfTasks[k].finish_time # Null
                             /\ perfTasks[k].finish_time > perfTasks[k].deadline}

OpenOverdueIdx(u) ==
    {k \in TasksOf(u) \ CompletedIdx(u) : perfTasks[k].deadline < now}

\* the scenario: exactly 4 tasks, 2 completed on time, 1 completed late, 1 not
\* completed with its deadline in the past
FourTaskScenario(u) ==
    /\ Cardinality(TasksOf(u)) = 4
    /\ Cardinality(OnTimeIdx(u)) = 2
    /\ Cardinality(LateIdx(u)) = 1
    /\ Cardinality(OpenOverdueIdx(u)) = 1

\* C16 (as stated): in the scenario the record reports completionRate 50.0,
\* overdueTasks 2 and punctualityRate 66.7.
C16_ScenarioAsStated ==
    \A u \in ProfileIds :
        FourTaskScenario(u)
        => /\ HasRecord(u)
           /\ RecordOf(u).completionRate = 500
           /\ RecordOf(u).overdueTasks = 2
           /\ RecordOf(u).punctualityRate = 667

\* C16 (amended): in the scenario three of the four tasks are completed, so
\* the record reports completionRate 75.0, with overdueTasks 2 and
\* punctualityRate 66.7.
C16_ScenarioThreeOfFourCompleted ==
    \A u \in ProfileIds :
        FourTaskScenario(u)
        => /\ HasRecord(u)
           /\ RecordOf(u).totalTasks = 4
           /\ RecordOf(u).completedTasks = 3
           /\ RecordOf(u).completionRate = 750
           /\ RecordOf(u).overdueTasks = 2
           /\ RecordOf(u).punctualityRate = 667

\* the scenario, the late task first and the open task last
C16_Witness ==
    /\ FourTaskScenario("u1")
    /\ perfTasks[1].finish_time > perfTasks[1].deadline
    /\ perfTasks[4].status = "todo"
    /\ RecordOf("u1").completionRate = 750

\* C17: overdueTasks of a record is the number of the employee's tasks that
\* are completed with a finish_time after the deadline, or not completed with
\* the deadline before the current time; a completed task is never counted as
\* overdue and as completed on time, and one with a finish_time is counted as
\* exactly one of the two.
C17_OverdueCount ==
    /\ \A k \in 1..Len(report) :
        LET u == report[k].id IN
            /\ report[k].overdueTasks
                 = Cardinality(LateIdx(u)) + Cardinality(OpenOverdueIdx(u))
            /\ MetricsOf(u).tasksCompletedOnTime = Cardinality(OnTimeIdx(u))
    /\ \A k \in 1..Len(perfTasks) :
        LET task == perfTasks[k] IN
            task.status = "completed"
            => /\ ~(IsOverdue(task, now) /\ IsOnTime(task))
               /\ (task.finish_time # Null
                   => (IsOverdue(task, now) \/ IsOnTime(task)))

\* after the deadlines: an employee with a task completed on time and an open
\* task, of which only the open one is overdue
C17_Witness ==
    /\ Len(report) = 1
    /\ now = 30
    /\ Cardinality(OnTimeIdx(report[1].id)) = 1
    /\ Cardinality(OpenOverdueIdx(report[1].id)) = 1
    /\ report[1].overdueTasks = 1

\* C18: a task that finished before it started adds nothing negative to the
\* average: the avgCompletionTime of every record is at least 0.
C18_AvgCompletionTimeNotNegative ==
    \A k \in 1..Len(report) : report[k].avgCompletionTime >= 0

\* among the positions of employee u's tasks, those of the review tasks
ReviewIdx(u) ==
    {k \in TasksOf(u) : perfTasks[k].status \in {"in_review", "done"}}

\* C19: cancelledTasks of a record is the number of the employee's tasks whose
\* status is none of todo, in_progress, in_review, done and completed, never
\* negative, and 0 when every task has one of the five; a done task is counted
\* as a review task, not as completed and not as cancelled.
C19_CancelledCount ==
    \A k \in 1..Len(report) :
        LET u == report[k].id
            m == MetricsOf(u)
        IN  /\ report[k].cancelledTasks = Cardinality(UnrecognizedIdx(u))
            /\ m.cancelledTasks = report[k].cancelledTasks
            /\ report[k].cancelledTasks >= 0
            /\ ((\A j \in TasksOf(u) : perfTasks[j].status \in TaskStatus)
                => report[k].cancelledTasks = 0)
            /\ m.reviewTasks = Cardinality(ReviewIdx(u))
            /\ report[k].completedTasks = Cardinality(CompletedIdx(u))

\* an employee with a done task and a task of an unrecognized status
C19_Witness ==
    /\ Len(report) = 1
    /\ \E j \in TasksOf(report[1].id) : perfTasks[j].status = "done"
    /\ \E j \in TasksOf(report[1].id) : perfTasks[j].status = "cancelled"
    /\ report[1].cancelledTasks = 1
    /\ report[1].completedTasks = 0
    /\ MetricsOf(report[1].id).reviewTasks = 1

(***************************************************************************)
(* Frame conditions of the board's handlers.                               *)
(***************************************************************************)
\* drag_over is refused for this target, or stays within the column
DragOverRefusedOrSame(over) ==
    \/ ~over.present
    \/ findContainerOfTask(localTasks, activeId) = NoContainer
    \/ findContainer(localTasks, over) = NoContainer
    \/ findContainerOfTask(localTasks, activeId) = findContainer(localTasks, over)
    \/ findContainerOfTask(localTasks, activeId) = "completed"
    \/ (~isAdmin /\ findContainer(localTasks, over) = "completed")

\* list b is list a but for the status of the task id, which is st in b
OnlyStatusOfChanged(a, b, id, st) ==
    /\ Len(b) = Len(a)
    /\ \A k \in 1..Len(a) :
        /\ b[k].id = a[k].id
        /\ [b[k] EXCEPT !.status = a[k].status] = a[k]
        /\ (a[k].id # id => b[k] = a[k])
        /\ (a[k].id = id => b[k].status = st)

\* C20: begin_drag only records the dragged task; a drag_over that is refused
\* or stays within the column changes nothing; an accepted drag_over changes
\* only the status of the dragged task in the local copy (the other tasks, the
\* other fields and the order stay); no handler changes the external list, and
\* the only effect outside the board is at most one call (taskId, status) at
\* end_drag.
C20_FrameConditions ==
    [][ /\ (\E id \in TaskIds : DragStart(id))
           => /\ activeId' \in IdsOf(localTasks)
              /\ UNCHANGED <<isAdmin, tasks, localTasks>>
              /\ calls' = <<>>
        /\ \A over \in OverTargets :
             DragOver(over)
             => /\ UNCHANGED <<isAdmin, tasks, activeId>>
                /\ calls' = <<>>
                /\ (DragOverRefusedOrSame(over) => localTasks' = localTasks)
                /\ (~DragOverRefusedOrSame(over)
                    => /\ OnlyStatusOfChanged(localTasks, localTasks', activeId,
                                              findContainer(localTasks, over))
                       /\ localTasks' # localTasks)
        /\ \A over \in OverTargets :
             DragEnd(over)
             => /\ UNCHANGED <<isAdmin, tasks>>
                /\ Len(calls') <= 1
                /\ \A k \in 1..Len(calls') :
                     /\ calls'[k].taskId = activeId
                     /\ calls'[k].status \in TaskStatus
      ]_vars

\* an accepted drag_over on a board of two tasks: the dragged task shows the
\* hovered column, the other task and the order are as in the external list
C20_Witness ==
    /\ activeId # NoId
    /\ Len(tasks) = 2
    /\ HasTask(localTasks, activeId)
    /\ lastOver \in columnIds
    /\ StatusIn(tasks, activeId) # lastOver
    /\ OnlyStatusOfChanged(tasks, localTasks, activeId, lastOver)

(***************************************************************************)
(* Further properties of the board.                                        *)
(***************************************************************************)
\* C21: after an end_drag whose drop target is present but resolves to no
\* column, the local copy equals the external list and onStatusChange was not
\* called.
C21_UnresolvedDropReverts ==
    ( /\ JustDropped
      /\ dropped.present
      /\ dropped.overContainer = NoContainer )
    => /\ localTasks = tasks
       /\ calls = <<>>

\* the number of positions of the list that hold the task
Occurrences(list, task) == Cardinality({k \in 1..Len(list) : list[k] = task})

\* C22: the grouping completes without failure; a task whose status is none
\* of the five recognized values is in none of the four column lists; a task
\* with status todo, in_progress, in_review or completed is in exactly one
\* column list, once, the one whose id is its status.
C22_GroupingByStatus ==
    LET g == tasksByStatus(localTasks) IN
        /\ ~g.threw
        /\ \A k \in 1..Len(localTasks) :
            LET task == localTasks[k] IN
                /\ (task.status \notin TaskStatus
                    => \A c \in columnIds : ~InList(g.grouped[c], task))
                /\ (task.status \in columnIds
                    => /\ Occurrences(g.grouped[task.status], task) = 1
                       /\ \A c \in columnIds \ {task.status} :
                            ~InList(g.grouped[c], task))

\* C23: end_drag calls onStatusChange only in a gesture in which a drag_over
\* was accepted, that is, changed the local status of the dragged task; a
\* gesture without an accepted move makes no call.
C23_CommitOnlyAfterAcceptedMove ==
    [][ (IsDragEndStep /\ calls' # <<>>) => moved ]_vars

C26_TimestampsFollowStatus ==
    \A id \in TaskIds :
        /\ (rows[id].finish_time # Null)
             = (rows[id].status \in {"in_review", "completed"})
        /\ (rows[id].status = "todo" => rows[id].start_time = Null)

(***************************************************************************)
(* AuthProvider (contexts/AuthContext.tsx) and ProtectedRoute: the auth     *)
(* events, the sign-out, and the fetchUserData calls they start, each of    *)
(* which reads the profile and then the role of the user it was started     *)
(* for and writes them to the provider's state when the answers arrive.     *)
(***************************************************************************)
\* the accounts: an administrator, an approved user and a user awaiting
\* approval
AuthUsers == {"a1", "u1", "u2"}

\* user_roles.role of an account
ServerRole(u) == IF u = "a1" THEN "admin" ELSE "user"

\* profiles.is_approved of an account
ServerApproved(u) == IF u = "u2" THEN "false" ELSE "true"

offAuthVars == <<kanbanVars, scoreVars, cardVars, rowVars, requestVars, listVars>>

\* fetchUserData(userId) is called: its first query is sent
StartFetch(session) ==
    IF session = NoUser THEN fetches
    ELSE fetches \cup {[userId |-> session, pc |-> "profile"]}

\* the listener of onAuthStateChange runs with the session of user `session'
AuthStateChange(session) ==
    /\ user' = session
    /\ fetches' = StartFetch(session)
    /\ IF session = NoUser
       THEN role' = NoRole /\ roleFor' = NoUser
       ELSE UNCHANGED <<role, roleFor>>
    /\ loading' = FALSE
    /\ UNCHANGED <<isApproved, approvedFor, sessionChecked>>
    /\ UNCHANGED offAuthVars

\* the getSession() promise of the mount effect resolves
GetSession(session) ==
    /\ ~sessionChecked
    /\ loading \/ session = user
    /\ sessionChecked' = TRUE
    /\ user' = session
    /\ fetches' = StartFetch(session)
    /\ loading' = FALSE
    /\ UNCHANGED <<role, roleFor, isApproved, approvedFor>>
    /\ UNCHANGED offAuthVars

\* signOut(): the session ends, the listener runs with no session, and the
\* state is cleared
signOut ==
    /\ user # NoUser
    /\ user' = NoUser
    /\ role' = NoRole
    /\ isApproved' = "null"
    /\ roleFor' = NoUser
    /\ approvedFor' = NoUser
    /\ loading' = FALSE
    /\ UNCHANGED <<sessionChecked, fetches>>
    /\ UNCHANGED offAuthVars

FetchOutcomes == {"data", "error", "throw"}

\* the catch branch of fetchUserData
FetchThrows(f) ==
    /\ role' = "user"
    /\ isApproved' = "null"
    /\ roleFor' = f.userId
    /\ approvedFor' = f.userId
    /\ fetches' = fetches \ {f}

\* the profile query of a fetchUserData call returns
FetchProfile(f, outcome) ==
    /\ f \in fetches
    /\ f.pc = "profile"
    /\ \/ /\ outcome = "data"
          /\ isApproved' = ServerApproved(f.userId)
          /\ approvedFor' = f.userId
          /\ fetches' = (fetches \ {f}) \cup {[f EXCEPT !.pc = "role"]}
          /\ UNCHANGED <<role, roleFor>>
       \/ /\ outcome = "error"
          /\ fetches' = (fetches \ {f}) \cup {[f EXCEPT !.pc = "role"]}
          /\ UNCHANGED <<role, roleFor, isApproved, approvedFor>>
       \/ /\ outcome = "throw"
          /\ FetchThrows(f)
    /\ UNCHANGED <<user, loading, sessionChecked>>
    /\ UNCHANGED offAuthVars

\* the role query of a fetchUserData call returns
FetchRole(f, outcome) ==
    /\ f \in fetches
    /\ f.pc = "role"
    /\ \/ /\ outcome = "data"
          /\ role' = ServerRole(f.userId)
          /\ roleFor' = f.userId
          /\ fetches' = fetches \ {f}
          /\ UNCHANGED <<isApproved, approvedFor>>
       \/ /\ outcome = "error"
          /\ fetches' = fetches \ {f}
          /\ UNCHANGED <<role, roleFor, isApproved, approvedFor>>
       \/ /\ outcome = "throw"
          /\ FetchThrows(f)
    /\ UNCHANGED <<user, loading, sessionChecked>>
    /\ UNCHANGED offAuthVars

\* what ProtectedRoute renders
ProtectedRoute(requireAdmin) ==
    IF loading THEN "loading"
    ELSE IF user = NoUser THEN "to_auth"
    ELSE IF isApproved = "false" THEN "to_auth"
    ELSE IF role = NoRole THEN "loading"
    ELSE IF requireAdmin /\ role # "admin" THEN "to_dashboard"
    ELSE "children"

AuthInit ==
    /\ BoardIdle
    /\ ScoreIdle
    /\ RowsIdle
    /\ PagesIdle

AuthNext ==
    \/ \E session \in AuthUsers \cup {NoUser} : AuthStateChange(session)
    \/ \E session \in AuthUsers \cup {NoUser} : GetSession(session)
    \/ signOut
    \/ \E f \in fetches, outcome \in FetchOutcomes : FetchProfile(f, outcome)
    \/ \E f \in fetches, outcome \in FetchOutcomes : FetchRole(f, outcome)

SpecAuth == AuthInit /\ [][AuthNext]_vars

(***************************************************************************)
(* Properties of the auth state.                                           *)
(***************************************************************************)
\* C27: whenever a user is signed in and role is not null, role and
\* isApproved were fetched for that user, and ProtectedRoute with
\* requireAdmin renders its children only for a user whose stored role is
\* admin and who is not unapproved.
C27_RoleBelongsToCurrentUser ==
    /\ (user # NoUser /\ role # NoRole) =>
           /\ roleFor = user
           /\ isApproved # "null" => approvedFor = user
    /\ ProtectedRoute(TRUE) = "children" =>
           /\ ServerRole(user) = "admin"
           /\ ServerApproved(user) # "false"

(***************************************************************************)
(* AdminRequests (pages/AdminRequests.tsx): the deadline requests as each   *)
(* administrator's page lists them, and handleApprove / handleReject, which *)
(* write to the server with one update after the other and refetch the      *)
(* list when all of them succeeded.                                         *)
(***************************************************************************)
offRequestVars == <<kanbanVars, scoreVars, cardVars, rowVars, authVars, listVars>>

\* fetchRequests: the requests with the statuses stored when it reads them
fetchRequests == [r \in RequestIds |-> requests[r].status]

\* the page of administrator a is mounted and its list loads
LoadRequests(a) ==
    /\ requestLists[a] = NoList
    /\ requestLists' = [requestLists EXCEPT ![a] = fetchRequests]
    /\ UNCHANGED <<requests, deadline, handlers>>
    /\ UNCHANGED offRequestVars

\* the cards of the pending tab: the ones with the Approve and Reject buttons
pendingRequests(a) == {r \in RequestIds : requestLists[a][r] = "pending"}

\* a run of a handler: decided records whether the stored status was pending
\* when the run's update of the request was applied
Handler(a, op, r, pc) ==
    [admin |-> a, op |-> op, id |-> r, pc |-> pc,
     decided |-> requests[r].status = "pending"]

\* handleApprove(r) by administrator a, up to the answer to its update of the
\* request; ok: the update succeeded
ApproveRequest(a, r, ok) ==
    /\ r \in pendingRequests(a)
    /\ Cardinality(handlers) < MaxHandlers
    /\ IF ok
       THEN /\ requests' = [requests EXCEPT
                               ![r] = [status |-> "approved", reviewed_by |-> a]]
            /\ handlers' = handlers \cup {Handler(a, "approve", r, "task")}
       ELSE UNCHANGED <<requests, handlers>>
    /\ UNCHANGED <<deadline, requestLists>>
    /\ UNCHANGED offRequestVars

\* handleApprove, the answer to its update of the task's deadline
ApproveTask(h, ok) ==
    /\ h \in handlers
    /\ h.op = "approve"
    /\ h.pc = "task"
    /\ IF ok
       THEN /\ deadline' = [deadline EXCEPT ![h.id] = RequestedDeadline(h.id)]
            /\ handlers' = (handlers \ {h}) \cup {[h EXCEPT !.pc = "refetch"]}
       ELSE /\ handlers' = handlers \ {h}
            /\ UNCHANGED deadline
    /\ UNCHANGED <<requests, requestLists>>
    /\ UNCHANGED offRequestVars

\* handleReject(r) by administrator a, up to the answer to its update
handleReject(a, r, ok) ==
    /\ r \in pendingRequests(a)
    /\ Cardinality(handlers) < MaxHandlers
    /\ IF ok
       THEN /\ requests' = [requests EXCEPT
                               ![r] = [status |-> "rejected", reviewed_by |-> a]]
            /\ handlers' = handlers \cup {Handler(a, "reject", r, "refetch")}
       ELSE UNCHANGED <<requests, handlers>>
    /\ UNCHANGED <<deadline, requestLists>>
    /\ UNCHANGED offRequestVars

\* fetchRequests(false, true) at the end of a handler returns
Refetch(h) ==
    /\ h \in handlers
    /\ h.pc = "refetch"
    /\ requestLists' = [requestLists EXCEPT ![h.admin] = fetchRequests]
    /\ handlers' = handlers \ {h}
    /\ UNCHANGED <<requests, deadline>>
    /\ UNCHANGED offRequestVars

RequestsInit ==
    /\ BoardIdle
    /\ ScoreIdle
    /\ RowsIdle
    /\ PagesIdle

RequestsNext ==
    \/ \E a \in Admins : LoadRequests(a)
    \/ \E a \in Admins, r \in RequestIds, ok \in BOOLEAN : ApproveRequest(a, r, ok)
    \/ \E h \in handlers, ok \in BOOLEAN : ApproveTask(h, ok)
    \/ \E a \in Admins, r \in RequestIds, ok \in BOOLEAN : handleReject(a, r, ok)
    \/ \E h \in handlers : Refetch(h)

SpecRequests == RequestsInit /\ [][RequestsNext]_vars

(***************************************************************************)
(* Properties of the deadline requests.                                    *)
(***************************************************************************)
\* a run of handleApprove for request r awaits the answer to its update of
\* the task
ApprovalUnderWay(r) ==
    \E h \in handlers : h.op = "approve" /\ h.id = r /\ h.pc = "task"

\* C28: whenever the stored status of a request is approved and no approval
\* of it is under way, the stored deadline of its task is the request's
\* requested_deadline.
C28_ApprovedMeansDeadlineUpdated ==
    \A r \in RequestIds :
        (requests[r].status = "approved" /\ ~ApprovalUnderWay(r)) =>
            deadline[r] = RequestedDeadline(r)

\* C29: once the stored status of a request has left pending, no step changes
\* its status, and the only step that changes the deadline of its task is the
\* second update of the run of handleApprove that decided it.
C29_DecidedAtMostOnce ==
    [][\A r \in RequestIds :
          requests[r].status # "pending" =>
              /\ requests'[r].status = requests[r].status
              /\ deadline'[r] # deadline[r] =>
                     \E h \in handlers :
                         /\ h.op = "approve" /\ h.id = r /\ h.pc = "task"
                         /\ h.decided
                         /\ h \notin handlers']_vars

(***************************************************************************)
(* The paginated task lists (pages/AdminTasks.tsx: UserDashboard and        *)
(* AdminTasks, whose fetchTasks and scroll triggers are the same): the      *)
(* initial load, the load-more requests of the scroll observer and the      *)
(* silent refreshes, each a fetchTasks call that reads page when it starts  *)
(* and writes the list when its answer arrives.  The server's rows do not   *)
(* change.                                                                  *)
(***************************************************************************)
PAGE_SIZE == 10

offListVars == <<kanbanVars, scoreVars, cardVars, rowVars, authVars, requestVars>>

\* the ids of the server's rows in the order of the query (created_at
\* descending)
ServerTasks == [i \in 1..NumServerTasks |-> i]

Min(a, b) == IF a < b THEN a ELSE b

\* .range(currentPage * PAGE_SIZE, (currentPage + 1) * PAGE_SIZE - 1)
Range(currentPage) ==
    LET from == Min(currentPage * PAGE_SIZE, NumServerTasks)
        to == Min((currentPage + 1) * PAGE_SIZE, NumServerTasks)
    IN  SubSeq(ServerTasks, from + 1, to)

\* fetchTasks() of the mount effect (it runs again when the user changes)
MountFetch ==
    /\ Len(listFetches) < MaxListFetches
    /\ listLoading' = TRUE
    /\ listFetches' = Append(listFetches, [isLoadMore |-> FALSE, currentPage |-> 0])
    /\ UNCHANGED <<listTasks, page, hasMore, loadingMore>>
    /\ UNCHANGED offListVars

\* fetchTasks(false, true): the poll, a realtime event, the refetch after an
\* update
SilentRefresh ==
    /\ Len(listFetches) < MaxListFetches
    /\ listFetches' = Append(listFetches, [isLoadMore |-> FALSE, currentPage |-> 0])
    /\ UNCHANGED <<listTasks, page, hasMore, listLoading, loadingMore>>
    /\ UNCHANGED offListVars

\* the scroll observer of the current render fires: fetchTasks(true)
LoadMore ==
    /\ hasMore /\ ~loadingMore /\ ~listLoading
    /\ Len(listFetches) < MaxListFetches
    /\ loadingMore' = TRUE
    /\ listFetches' = Append(listFetches,
                             [isLoadMore |-> TRUE, currentPage |-> page + 1])
    /\ UNCHANGED <<listTasks, page, hasMore, listLoading>>
    /\ UNCHANGED offListVars

RemoveAt(seq, i) == SubSeq(seq, 1, i - 1) \o SubSeq(seq, i + 1, Len(seq))

\* the answer to the i-th fetchTasks call in flight arrives; ok: no error
FetchReturns(i, ok) ==
    /\ i \in 1..Len(listFetches)
    /\ LET f == listFetches[i]
           newTasks == Range(f.currentPage)
       IN  IF ok
           THEN /\ listTasks' = IF f.isLoadMore THEN listTasks \o newTasks
                                ELSE newTasks
                /\ page' = IF f.isLoadMore THEN f.currentPage ELSE 0
                /\ hasMore' = (Len(newTasks) = PAGE_SIZE)
           ELSE UNCHANGED <<listTasks, page, hasMore>>
    /\ listLoading' = FALSE
    /\ loadingMore' = FALSE
    /\ listFetches' = RemoveAt(listFetches, i)
    /\ UNCHANGED offListVars

ListInit ==
    /\ BoardIdle
    /\ ScoreIdle
    /\ RowsIdle
    /\ PagesIdle

ListNext ==
    \/ MountFetch
    \/ SilentRefresh
    \/ LoadMore
    \/ \E i \in 1..MaxListFetches, ok \in BOOLEAN : FetchReturns(i, ok)

SpecList == ListInit /\ [][ListNext]_vars

(***************************************************************************)
(* Properties of the paginated task lists.                                 *)
(***************************************************************************)
\* C30: the task list held in page state contains each task id at most once.
C30_NoDuplicateTasks ==
    \A i, j \in 1..Len(listTasks) : i # j => listTasks[i] # listTasks[j]

====
